---- MODULE Spec2Model ----
(***************************************************************************)
(* Model of the ushd package: the abridged life table builder              *)
(* (src/src/ushd/life_table.py) and the Horiuchi decomposition with its    *)
(* county aligner (src/src/ushd/decomposition.py).                         *)
(*                                                                         *)
(* Numbers.  Python floats are modelled as exact rationals <<num, den>>    *)
(* with den > 0, kept in lowest terms; None is the pair <<0, 0>>.  The     *)
(* life-table recurrence only adds, multiplies, divides and compares, so   *)
(* every relation the code establishes between columns is decided by the   *)
(* same arithmetic here; rounding is not modelled.                         *)
(***************************************************************************)
EXTENDS Integers, Sequences, FiniteSets, TLC

VARIABLES
    \* build_life_table
    pc,      \* position inside build_life_table
    data,    \* the LifeTableInput passed to build_life_table
    err,     \* message of the ValueError raised, "" when none
    table,   \* the columns computed so far (empty until computed)
    \* horiuchi_decomposition
    hpc,            \* position inside horiuchi_decomposition
    hargs,          \* its arguments
    herr,           \* message of the error raised, "" when none
    delta,          \* comparison - baseline
    contributions,  \* per age group, the summands accumulated so far
    step_idx,       \* loop variable of lines 85-90
    mx_step,        \* the intermediate rate vector of the step
    idx,            \* loop variable of _numeric_gradient (1-based)
    perturbed,      \* the vector last passed to func
    upper,          \* func's value at the raised vector
    gradient,       \* the gradients collected in this step
    builds,         \* the LifeTableInput of every build_life_table call made
    \* decompose_between_counties
    dpc,            \* position inside decompose_between_counties
    dargs,          \* its arguments: the records, ax_col given or not, steps
    derr,           \* message of the error raised, "" when none
    cohort,         \* rows of the requested race and sex
    county_a_rows,
    county_b_rows,
    common_keys,    \* the sorted keys both counties have
    ax_values,      \* the ax vector handed to the engine, if any
    engine_calls,   \* number of horiuchi_decomposition calls made
    output          \* the rows returned

ltVars == <<pc, data, err, table>>
hVars == <<hpc, hargs, herr, delta, contributions, step_idx, mx_step, idx,
           perturbed, upper, gradient, builds>>
dVars == <<dpc, dargs, derr, cohort, county_a_rows, county_b_rows,
           common_keys, ax_values, engine_calls, output>>
vars == <<ltVars, hVars, dVars>>

----------------------------------------------------------------------------
(* Rational arithmetic *)

None == <<0, 0>>

IsNone(v) == v[2] = 0

R(n) == <<n, 1>>

Abs(n) == IF n < 0 THEN -n ELSE n

RECURSIVE GCD(_, _)
GCD(a, b) == IF b = 0 THEN a ELSE GCD(b, a % b)

Norm(n, d) ==
    LET s == IF d < 0 THEN -1 ELSE 1
        g == GCD(Abs(n), Abs(d))
    IN  <<(s * n) \div g, (s * d) \div g>>

RAdd(x, y) ==
    LET g == GCD(x[2], y[2])
    IN  Norm(x[1] * (y[2] \div g) + y[1] * (x[2] \div g), x[2] * (y[2] \div g))
RSub(x, y) == RAdd(x, <<-y[1], y[2]>>)
RMul(x, y) ==
    LET g1 == GCD(Abs(x[1]), y[2])
        g2 == GCD(Abs(y[1]), x[2])
    IN  Norm((x[1] \div g1) * (y[1] \div g2), (x[2] \div g2) * (y[2] \div g1))
RDiv(x, y) == RMul(x, Norm(y[2], y[1]))
RLt(x, y) == x[1] * y[2] < y[1] * x[2]
RLe(x, y) == x[1] * y[2] <= y[1] * x[2]
RMin(x, y) == IF RLt(y, x) THEN y ELSE x    \* Python min(x, y)
RMax(x, y) == IF RLt(x, y) THEN y ELSE x    \* Python max(x, y)
IsZero(x) == x[1] = 0

Zero == R(0)
One == R(1)

(* A value hi * 10^FloorExp + lo.  The open interval divides by             *)
(* max(rate, 1e-12); the quotient for a zero rate is a multiple of 10^12,   *)
(* which is carried in hi so that person-years and expectancies stay exact. *)
FloorExp == 12

W(hi, lo) == <<hi, lo>>
WOf(x) == W(Zero, x)
WAdd(a, b) == W(RAdd(a[1], b[1]), RAdd(a[2], b[2]))
WDivR(a, x) == W(RDiv(a[1], x), RDiv(a[2], x))

(* x / max(rate, 1e-12) for rate >= 0: a positive rational whose            *)
(* denominator fits the model's integers exceeds 1e-12, so the floor is     *)
(* taken exactly when the rate is zero.                                     *)
DivByFlooredRate(x, rate) ==
    IF RLe(rate, Zero) THEN W(x, Zero) ELSE WOf(RDiv(x, rate))

----------------------------------------------------------------------------
(* life_table.py *)

Len2(a, b, c) == Len(a) = Len(b) /\ Len(b) = Len(c)

\* _validate_inputs: the message of the error it raises, or "ok".
validate_inputs(d) ==
    LET k == Len(d.age_lower) IN
    IF ~Len2(d.age_lower, d.age_upper, d.mx)
    THEN "age_lower, age_upper, and mx must have the same length"
    ELSE IF k < 2
    THEN "Life tables require at least two age groups"
    ELSE IF \E i \in 1..k :
              /\ ~IsNone(d.age_upper[i])
              /\ RLe(d.age_upper[i], d.age_lower[i])
    THEN "age_upper must exceed age_lower"
    ELSE IF d.ax_given /\ Len(d.ax) # k
    THEN "ax must have the same length as the age vectors"
    ELSE IF \E i \in 1..(k - 1) : IsNone(d.age_upper[i])
    THEN "Only the final age group may be open-ended"
    ELSE "ok"

\* The rate check looking at the first rate only.
NegativeRateFirstOnly(mx) == Len(mx) > 0 /\ RLt(mx[1], Zero)

\* build_life_table, lines 118-122: the rate check after the conversion.
NegativeRate(mx) == \E i \in 1..Len(mx) : RLt(mx[i], Zero)

\* _compute_ax
compute_ax(age_lower, age_upper, mx) ==
    [i \in 1..Len(mx) |->
        IF IsNone(age_upper[i])
        THEN DivByFlooredRate(One, mx[i])
        ELSE WOf(RDiv(RSub(age_upper[i], age_lower[i]), R(2)))]

\* build_life_table, lines 124-128
AxColumn(d) ==
    IF d.ax_given
    THEN [i \in 1..Len(d.ax) |-> WOf(d.ax[i])]
    ELSE compute_ax(d.age_lower, d.age_upper, d.mx)

\* build_life_table, lines 130-135
WidthColumn(d) ==
    [i \in 1..Len(d.age_lower) |->
        IF IsNone(d.age_upper[i]) THEN None
        ELSE RSub(d.age_upper[i], d.age_lower[i])]

\* qx without the clamp to [0, 1].
QxValueUnclamped(width, rate, a) ==
    IF IsNone(width) THEN One
    ELSE LET numerator == RMul(width, rate)
             denominator == RAdd(One, RMul(RSub(width, a), rate))
         IN  IF ~IsZero(denominator)
             THEN RDiv(numerator, denominator) ELSE One

\* build_life_table, lines 139-145: one qx from width, rate and a
QxValue(width, rate, a) ==
    IF IsNone(width) THEN One
    ELSE LET numerator == RMul(width, rate)
             denominator == RAdd(One, RMul(RSub(width, a), rate))
             value == IF ~IsZero(denominator)
                      THEN RDiv(numerator, denominator) ELSE One
         IN  RMax(Zero, RMin(One, value))

\* build_life_table, lines 137-145
QxColumn(n, mx, ax) ==
    [i \in 1..Len(mx) |-> QxValue(n[i], mx[i], ax[i][2])]

\* build_life_table, line 147
PxColumn(qx) == [i \in 1..Len(qx) |-> RSub(One, qx[i])]

\* build_life_table, lines 149-151
RECURSIVE LxUpTo(_, _, _)
LxUpTo(radix, px, m) ==
    IF m = 1 THEN <<radix>>
    ELSE LET prev == LxUpTo(radix, px, m - 1)
         IN  Append(prev, RMul(prev[m - 1], px[m - 1]))

\* lx with every survivor count taken from the radix, not from lx[-1].
LxFromRadix(radix, px) ==
    [i \in 1..Len(px) |-> IF i = 1 THEN radix ELSE RMul(radix, px[i - 1])]

LxColumn(radix, px) == LxUpTo(radix, px, Len(px))

\* dx taken as the drop of lx to the next age group.
DxByDifference(lx, qx) ==
    [i \in 1..Len(lx) |->
        IF i < Len(lx) THEN RSub(lx[i], lx[i + 1]) ELSE lx[i]]

\* build_life_table, line 153
DxColumn(lx, qx) == [i \in 1..Len(lx) |-> RMul(lx[i], qx[i])]

\* build_life_table, lines 155-160
LLxColumn(n, lx, dx, ax, mx) ==
    [i \in 1..Len(lx) |->
        IF IsNone(n[i])
        THEN DivByFlooredRate(lx[i], mx[i])
        ELSE WOf(RAdd(RMul(n[i], RSub(lx[i], dx[i])),
                      RMul(ax[i][2], dx[i])))]

\* build_life_table, lines 162-165
RECURSIVE TxFrom(_, _)
TxFrom(LLx, i) ==
    IF i = Len(LLx) THEN LLx[i] ELSE WAdd(TxFrom(LLx, i + 1), LLx[i])

TxColumn(LLx) == [i \in 1..Len(LLx) |-> TxFrom(LLx, i)]

\* build_life_table, line 167
ExColumn(Tx, lx) ==
    [i \in 1..Len(lx) |->
        IF ~IsZero(lx[i]) THEN WDivR(Tx[i], lx[i]) ELSE WOf(Zero)]

NoTable ==
    [ax |-> <<>>, n |-> <<>>, qx |-> <<>>, px |-> <<>>, lx |-> <<>>,
     dx |-> <<>>, Lx |-> <<>>, Tx |-> <<>>, ex |-> <<>>]

----------------------------------------------------------------------------
(* Inputs of build_life_table *)

MaxGroups == 3

BoundsValues ==
    { <<R(0), R(1)>>, <<R(1), R(3)>>, <<R(3), None>>,
      <<R(3), R(1)>>, <<R(1), R(1)>> }
RateValues == { <<-1, 2>>, R(0), <<1, 2>> }
AxValues == { <<1, 2>>, R(3), R(4) }
RadixValues == { R(-100000), R(0), R(100000) }

Const(k, v) == [i \in 1..k |-> v]

NoData ==
    [age_lower |-> <<>>, age_upper |-> <<>>, mx |-> <<>>,
     ax_given |-> FALSE, ax |-> <<>>, radix |-> Zero]

LifeTableInput(age_lower, age_upper, mx, ax_given, ax, radix) ==
    [age_lower |-> age_lower, age_upper |-> age_upper, mx |-> mx,
     ax_given |-> ax_given, ax |-> ax, radix |-> radix]

Ages == [i \in 1..(MaxGroups + 1) |-> R(2 * i - 2)]

InitLT ==
    /\ data = NoData
    /\ pc = "idle"
    /\ err = ""
    /\ table = NoTable

NoArgs ==
    [baseline_mx |-> <<>>, comparison_mx |-> <<>>, age_lower |-> <<>>,
     age_upper |-> <<>>, ax_given |-> FALSE, ax |-> <<>>, steps |-> 0]

InitH ==
    /\ hpc = "idle"
    /\ hargs = NoArgs
    /\ herr = ""
    /\ delta = <<>>
    /\ contributions = <<>>
    /\ step_idx = 0
    /\ mx_step = <<>>
    /\ idx = 0
    /\ perturbed = <<>>
    /\ upper = <<>>
    /\ gradient = <<>>
    /\ builds = <<>>

NoAx == [given |-> FALSE, vals |-> <<>>]

InitD ==
    /\ dpc = "idle"
    /\ dargs = [records |-> <<>>, ax_col |-> FALSE, steps |-> 0]
    /\ derr = ""
    /\ cohort = <<>>
    /\ county_a_rows = <<>>
    /\ county_b_rows = <<>>
    /\ common_keys = <<>>
    /\ ax_values = NoAx
    /\ engine_calls = 0
    /\ output = <<>>

Init == InitLT /\ InitH /\ InitD

\* A caller builds a LifeTableInput whose columns have equal length.
CallAligned ==
    /\ pc = "idle"
    /\ \E k \in 0..MaxGroups :
         \E b \in [1..k -> BoundsValues], m \in [1..k -> RateValues],
            r \in RadixValues, a \in AxValues \cup {None} :
           data' = LifeTableInput([i \in 1..k |-> b[i][1]],
                                  [i \in 1..k |-> b[i][2]], m, ~IsNone(a),
                                  IF IsNone(a) THEN <<>> ELSE Const(k, a), r)
    /\ pc' = "call"
    /\ UNCHANGED <<err, table>>
    /\ UNCHANGED <<hVars, dVars>>

\* A caller builds a LifeTableInput whose columns differ in length.
CallRagged ==
    /\ pc = "idle"
    /\ \E kl \in 0..MaxGroups, ku \in 0..MaxGroups, km \in 0..MaxGroups,
          ka \in 0..MaxGroups, g \in BOOLEAN :
         data' = LifeTableInput(
                   SubSeq(Ages, 1, kl),
                   [i \in 1..ku |-> IF i = kl THEN None ELSE Ages[i + 1]],
                   Const(km, <<1, 2>>), g,
                   IF g THEN Const(ka, One) ELSE <<>>, R(100000))
    /\ pc' = "call"
    /\ UNCHANGED <<err, table>>
    /\ UNCHANGED <<hVars, dVars>>

\* build_life_table, lines 103-116
Validate ==
    /\ pc = "call"
    /\ LET v == validate_inputs(data) IN
       IF v = "ok"
       THEN pc' = "validated" /\ err' = err
       ELSE pc' = "raised" /\ err' = v
    /\ UNCHANGED <<data, table>>
    /\ UNCHANGED <<hVars, dVars>>

\* build_life_table, lines 118-122
CheckRates ==
    /\ pc = "validated"
    /\ IF NegativeRate(data.mx)
       THEN pc' = "raised" /\ err' = "Mortality rates must be non-negative"
       ELSE pc' = "converted" /\ err' = err
    /\ UNCHANGED <<data, table>>
    /\ UNCHANGED <<hVars, dVars>>

\* build_life_table, lines 124-147
ComputeQx ==
    /\ pc = "converted"
    /\ LET ax == AxColumn(data)
           n == WidthColumn(data)
           qx == QxColumn(n, data.mx, ax)
       IN  table' = [table EXCEPT !.ax = ax, !.n = n, !.qx = qx,
                                  !.px = PxColumn(qx)]
    /\ pc' = "probabilities"
    /\ UNCHANGED <<data, err>>
    /\ UNCHANGED <<hVars, dVars>>

\* build_life_table, lines 149-153
ComputeLx ==
    /\ pc = "probabilities"
    /\ LET lx == LxColumn(data.radix, table.px)
       IN  table' = [table EXCEPT !.lx = lx, !.dx = DxColumn(lx, table.qx)]
    /\ pc' = "survivorship"
    /\ UNCHANGED <<data, err>>
    /\ UNCHANGED <<hVars, dVars>>

\* build_life_table, lines 155-182
ComputeEx ==
    /\ pc = "survivorship"
    /\ LET LLx == LLxColumn(table.n, table.lx, table.dx, table.ax, data.mx)
           Tx == TxColumn(LLx)
       IN  table' = [table EXCEPT !.Lx = LLx, !.Tx = Tx,
                                  !.ex = ExColumn(Tx, table.lx)]
    /\ pc' = "returned"
    /\ UNCHANGED <<data, err>>
    /\ UNCHANGED <<hVars, dVars>>

NextLT ==
    \/ CallAligned \/ CallRagged
    \/ Validate \/ CheckRates \/ ComputeQx \/ ComputeLx \/ ComputeEx

SpecLT == Init /\ [][NextLT]_vars

----------------------------------------------------------------------------
(* decomposition.py: horiuchi_decomposition *)

\* _numeric_gradient, line 50: the perturbation 1e-5
StepNum == 1
StepDen == 100000
step == <<StepNum, StepDen>>

(* A life expectancy is kept as the term ex0(mx): the ex[0] of the table    *)
(* built from mx over the call's partition and ax.  Its value for rates of  *)
(* the form m +/- 1e-5 and the radix 100000 does not fit the model's        *)
(* integers; whether the build raises is decided exactly.  A sum of floats  *)
(* is kept as the ordered sequence of its summands.                         *)
DefaultRadix == 100000

\* build_life_table as called from _life_expectancy_from_mx: the error it
\* raises, "" when it returns a table.
BuildError(d) ==
    LET v == validate_inputs(d) IN
    IF v # "ok" THEN v
    ELSE IF NegativeRate(d.mx) THEN "Mortality rates must be non-negative"
    ELSE ""

\* _life_expectancy_from_mx, lines 41-43: the input it builds a table from
BuildInput(mx, a) ==
    LifeTableInput(a.age_lower, a.age_upper, mx, a.ax_given, a.ax,
                   R(DefaultRadix))

\* _life_expectancy_from_mx
life_expectancy_from_mx(mx, a) ==
    [error |-> BuildError(BuildInput(mx, a)), ex0 |-> mx]

\* horiuchi_decomposition, lines 86-87
Weight(j, steps) == Norm(2 * j + 1, 2 * steps)
MxStep(baseline, d, j, steps) ==
    [i \in 1..Len(d) |-> RAdd(baseline[i], RMul(Weight(j, steps), d[i]))]

\* _numeric_gradient, lines 54-55 and 57
Raise(mx, i) == [mx EXCEPT ![i] = RAdd(mx[i], step)]
\* a lowering that takes the step off once, leaving the midpoint itself
LowerOnce(mx, i) == [mx EXCEPT ![i] = RSub(mx[i], step)]
Lower(mx, i) == [mx EXCEPT ![i] = RSub(mx[i], RMul(R(2), step))]

\* _numeric_gradient, line 59: (upper - lower) / (2 * step)
GradientTerm(up, lo) == [upper |-> up, lower |-> lo]

\* horiuchi_decomposition, line 90: grad * diff / steps
Summand(grad, diff, steps) == [grad |-> grad, diff |-> diff, steps |-> steps]

\* horiuchi_decomposition, lines 71-84
HStart ==
    /\ hpc = "start"
    /\ IF Len(hargs.baseline_mx) # Len(hargs.comparison_mx)
       THEN /\ hpc' = "raised"
            /\ herr' = "baseline_mx and comparison_mx must have the same length"
            /\ UNCHANGED <<delta, contributions>>
       ELSE /\ hpc' = "step"
            /\ herr' = herr
            /\ delta' = [i \in 1..Len(hargs.baseline_mx) |->
                           RSub(hargs.comparison_mx[i], hargs.baseline_mx[i])]
            /\ contributions' = [i \in 1..Len(hargs.baseline_mx) |-> <<>>]
    /\ step_idx' = 0
    /\ UNCHANGED <<hargs, mx_step, idx, perturbed, upper, gradient, builds>>
    /\ UNCHANGED <<ltVars, dVars>>

\* horiuchi_decomposition, lines 85-88, and _numeric_gradient, line 52
HBeginStep ==
    /\ hpc = "step"
    /\ step_idx < hargs.steps
    /\ mx_step' = MxStep(hargs.baseline_mx, delta, step_idx, hargs.steps)
    /\ gradient' = <<>>
    /\ idx' = 1
    /\ hpc' = "gradient"
    /\ UNCHANGED <<hargs, herr, delta, contributions, step_idx, perturbed,
                   upper, builds>>
    /\ UNCHANGED <<ltVars, dVars>>

\* _numeric_gradient, lines 53-56
HEvalUpper ==
    /\ hpc = "gradient"
    /\ idx <= Len(mx_step)
    /\ perturbed' = Raise(mx_step, idx)
    /\ builds' = Append(builds, BuildInput(perturbed', hargs))
    /\ LET f == life_expectancy_from_mx(perturbed', hargs) IN
       IF f.error # ""
       THEN hpc' = "raised" /\ herr' = f.error /\ upper' = upper
       ELSE hpc' = "lower" /\ herr' = herr /\ upper' = f.ex0
    /\ UNCHANGED <<hargs, delta, contributions, step_idx, mx_step, idx,
                   gradient>>
    /\ UNCHANGED <<ltVars, dVars>>

\* _numeric_gradient, lines 57-59
HEvalLower ==
    /\ hpc = "lower"
    /\ perturbed' = Lower(perturbed, idx)
    /\ builds' = Append(builds, BuildInput(perturbed', hargs))
    /\ LET f == life_expectancy_from_mx(perturbed', hargs) IN
       IF f.error # ""
       THEN /\ hpc' = "raised" /\ herr' = f.error
            /\ UNCHANGED <<gradient, idx>>
       ELSE /\ hpc' = "gradient" /\ herr' = herr
            /\ gradient' = Append(gradient, GradientTerm(upper, f.ex0))
            /\ idx' = idx + 1
    /\ UNCHANGED <<hargs, delta, contributions, step_idx, mx_step, upper>>
    /\ UNCHANGED <<ltVars, dVars>>

\* _numeric_gradient, line 60, and horiuchi_decomposition, lines 89-90
HAccumulate ==
    /\ hpc = "gradient"
    /\ idx > Len(mx_step)
    /\ contributions' =
         [i \in 1..Len(contributions) |->
            IF i <= Len(gradient) /\ i <= Len(delta)
            THEN Append(contributions[i],
                        Summand(gradient[i], delta[i], hargs.steps))
            ELSE contributions[i]]
    /\ step_idx' = step_idx + 1
    /\ hpc' = "step"
    /\ UNCHANGED <<hargs, herr, delta, mx_step, idx, perturbed, upper,
                   gradient, builds>>
    /\ UNCHANGED <<ltVars, dVars>>

\* horiuchi_decomposition, lines 92-96
HReturn ==
    /\ hpc = "step"
    /\ step_idx >= hargs.steps
    /\ hpc' = "returned"
    /\ UNCHANGED <<hargs, herr, delta, contributions, step_idx, mx_step, idx,
                   perturbed, upper, gradient, builds>>
    /\ UNCHANGED <<ltVars, dVars>>


(* Calls of horiuchi_decomposition *)

MaxRates == 2
MaxSteps == 2

DecompositionRates == { R(0), <<1, 200000>>, <<1, 100000>>, <<1, 2>> }

Arguments(baseline_mx, comparison_mx, age_lower, age_upper, ax_given, ax, steps) ==
    [baseline_mx |-> baseline_mx, comparison_mx |-> comparison_mx,
     age_lower |-> age_lower, age_upper |-> age_upper,
     ax_given |-> ax_given, ax |-> ax, steps |-> steps]

\* the partition [0,2), [2,4), ... of k groups, the last one open or not
Partition(k, open) ==
    [lower |-> SubSeq(Ages, 1, k),
     upper |-> [i \in 1..k |-> IF i = k /\ open THEN None ELSE Ages[i + 1]]]

\* A caller passes rate vectors of the partition's length.
HCall ==
    /\ hpc = "idle"
    /\ \E k \in 0..MaxRates :
         \E b \in [1..k -> DecompositionRates],
            c \in [1..k -> DecompositionRates],
            open \in BOOLEAN, g \in BOOLEAN, n \in 1..MaxSteps :
           hargs' = Arguments(b, c, Partition(k, open).lower,
                              Partition(k, open).upper, g,
                              IF g THEN Const(k, One) ELSE <<>>, n)
    /\ hpc' = "start"
    /\ UNCHANGED <<herr, delta, contributions, step_idx, mx_step, idx,
                   perturbed, upper, gradient, builds>>
    /\ UNCHANGED <<ltVars, dVars>>

\* A caller passes vectors whose lengths differ.
HCallRagged ==
    /\ hpc = "idle"
    /\ \E kb \in 0..MaxRates, kc \in 0..MaxRates, kp \in 0..MaxRates,
          r \in {<<-1, 2>>, <<1, 2>>} :
         /\ ~(kb = kc /\ kc = kp /\ r = <<1, 2>>)
         /\ hargs' = Arguments(Const(kb, r), Const(kc, <<1, 4>>),
                               Partition(kp, TRUE).lower,
                               Partition(kp, TRUE).upper, FALSE, <<>>, 1)
    /\ hpc' = "start"
    /\ UNCHANGED <<herr, delta, contributions, step_idx, mx_step, idx,
                   perturbed, upper, gradient, builds>>
    /\ UNCHANGED <<ltVars, dVars>>

NextH ==
    \/ HCall \/ HCallRagged
    \/ HStart \/ HBeginStep \/ HEvalUpper \/ HEvalLower \/ HAccumulate
    \/ HReturn

SpecH == Init /\ [][NextH]_vars

----------------------------------------------------------------------------
(* decomposition.py: decompose_between_counties *)

\* the arguments county_a, county_b, race and sex of the modelled calls
CountyA == "A"
CountyB == "B"
Race == "White"
Sex == "Female"

\* _key
Key(row) == <<row.age_lower, row.age_upper>>

\* Python's order on (lower, upper) tuples with numeric entries
KeyLess(k1, k2) ==
    \/ RLt(k1[1], k2[1])
    \/ k1[1] = k2[1] /\ RLt(k1[2], k2[2])

\* Comparing two tuples compares their uppers when the lowers are equal,
\* and raises TypeError when exactly one of the uppers is None.
SortRaises(S) ==
    \E k1 \in S, k2 \in S :
        k1 # k2 /\ k1[1] = k2[1] /\ IsNone(k1[2]) # IsNone(k2[2])

\* sorted(keys), for keys whose comparison does not raise
RECURSIVE Sorted(_)
Sorted(S) ==
    IF S = {} THEN <<>>
    ELSE LET m == CHOOSE k \in S : \A o \in S \ {k} : KeyLess(k, o)
         IN  <<m>> \o Sorted(S \ {m})

SelectRows(rows, Keep(_)) ==
    LET F[n \in 0..Len(rows)] ==
            IF n = 0 THEN <<>>
            ELSE IF Keep(rows[n]) THEN Append(F[n - 1], rows[n])
            ELSE F[n - 1]
    IN  F[Len(rows)]

\* the cohort filter accepting a row that matches the race or the sex
CohortOfEither(records) ==
    LET Keep(row) == row.race = Race \/ row.sex = Sex
    IN  SelectRows(records, Keep)

\* decompose_between_counties, line 132
CohortOf(records) ==
    LET Keep(row) == row.race = Race /\ row.sex = Sex
    IN  SelectRows(records, Keep)

\* decompose_between_counties, lines 136-137
CountyRows(rows, county) ==
    LET Keep(row) == row.county = county
    IN  SelectRows(rows, Keep)

\* decompose_between_counties, lines 141-146: the keys of a dict built
\* from the rows, and the row a key maps to (the last one with that key)
KeysOf(rows) == { Key(rows[n]) : n \in 1..Len(rows) }
IndexRow(rows, key) ==
    rows[CHOOSE n \in 1..Len(rows) :
            /\ Key(rows[n]) = key
            /\ \A m \in (n + 1)..Len(rows) : Key(rows[m]) # key]

\* the ax collection that keeps what it gathered when a key has no value
CollectAxPartial(keys, rows_a, rows_b) ==
    LET Chosen(key) ==
            IF ~IsNone(IndexRow(rows_a, key).ax)
            THEN IndexRow(rows_a, key).ax ELSE IndexRow(rows_b, key).ax
        F[n \in 0..Len(keys)] ==
            IF n = 0 THEN <<>>
            ELSE IF IsNone(Chosen(keys[n])) THEN F[n - 1]
            ELSE Append(F[n - 1], Chosen(keys[n]))
    IN  IF F[Len(keys)] # <<>>
        THEN [given |-> TRUE, vals |-> F[Len(keys)]] ELSE NoAx

\* decompose_between_counties, lines 159-169
CollectAx(keys, rows_a, rows_b) ==
    LET Chosen(key) ==
            IF ~IsNone(IndexRow(rows_a, key).ax)
            THEN IndexRow(rows_a, key).ax ELSE IndexRow(rows_b, key).ax
        collected ==
            IF \E n \in 1..Len(keys) : IsNone(Chosen(keys[n]))
            THEN <<>>
            ELSE [n \in 1..Len(keys) |-> Chosen(keys[n])]
    IN  IF collected # <<>>
        THEN [given |-> TRUE, vals |-> collected] ELSE NoAx

\* sum(...) of floats: the summands in the order they are added
SumOf(xs) == [sum_of |-> xs]

\* the total taken over the first contribution only
TotalOfFirst(contribution) == SumOf(SubSeq(contribution, 1, 1))

\* decompose_between_counties, line 180
TotalGap(contribution) == SumOf(contribution)

\* decompose_between_counties, lines 181-191, over DecompositionResult.to_records
AnnotatedRows(age_lower, age_upper, contribution) ==
    [i \in 1..Len(age_lower) |->
        [age_lower |-> age_lower[i], age_upper |-> age_upper[i],
         contribution |-> contribution[i],
         county_a |-> CountyA, county_b |-> CountyB,
         race |-> Race, sex |-> Sex,
         life_expectancy_difference |-> TotalGap(contribution)]]

\* decompose_between_counties, lines 131-134
DFilterCohort ==
    /\ dpc = "call"
    /\ cohort' = CohortOf(dargs.records)
    /\ IF cohort' = <<>>
       THEN /\ dpc' = "raised"
            /\ derr' = "No rows found for the specified race/sex cohort"
       ELSE dpc' = "cohort" /\ derr' = derr
    /\ UNCHANGED <<dargs, county_a_rows, county_b_rows, common_keys,
                   ax_values, engine_calls, output>>
    /\ UNCHANGED <<ltVars, hVars>>

\* decompose_between_counties, lines 136-139
DSplitCounties ==
    /\ dpc = "cohort"
    /\ county_a_rows' = CountyRows(cohort, CountyA)
    /\ county_b_rows' = CountyRows(cohort, CountyB)
    /\ IF county_a_rows' = <<>> \/ county_b_rows' = <<>>
       THEN /\ dpc' = "raised"
            /\ derr' = "Both counties must have data for the specified cohort"
       ELSE dpc' = "split" /\ derr' = derr
    /\ UNCHANGED <<dargs, cohort, common_keys, ax_values, engine_calls,
                   output>>
    /\ UNCHANGED <<ltVars, hVars>>

\* decompose_between_counties, lines 141-150
DAlignKeys ==
    /\ dpc = "split"
    /\ LET common == KeysOf(county_a_rows) \cap KeysOf(county_b_rows) IN
       IF SortRaises(common)
       THEN /\ dpc' = "raised"
            /\ derr' = "TypeError: '<' not supported"
            /\ UNCHANGED common_keys
       ELSE IF common = {}
       THEN /\ dpc' = "raised"
            /\ derr' = "No overlapping age groups available for decomposition"
            /\ UNCHANGED common_keys
       ELSE /\ dpc' = "aligned"
            /\ derr' = derr
            /\ common_keys' = Sorted(common)
    /\ UNCHANGED <<dargs, cohort, county_a_rows, county_b_rows, ax_values,
                   engine_calls, output>>
    /\ UNCHANGED <<ltVars, hVars>>

\* decompose_between_counties, lines 152-178: the call of the engine
DInvokeEngine ==
    /\ dpc = "aligned"
    /\ ax_values' = IF dargs.ax_col
                    THEN CollectAx(common_keys, county_a_rows, county_b_rows)
                    ELSE NoAx
    /\ hargs' = Arguments(
                  [n \in 1..Len(common_keys) |->
                      IndexRow(county_a_rows, common_keys[n]).mx],
                  [n \in 1..Len(common_keys) |->
                      IndexRow(county_b_rows, common_keys[n]).mx],
                  [n \in 1..Len(common_keys) |-> common_keys[n][1]],
                  [n \in 1..Len(common_keys) |-> common_keys[n][2]],
                  ax_values'.given, ax_values'.vals, dargs.steps)
    /\ hpc' = "start"
    /\ engine_calls' = engine_calls + 1
    /\ dpc' = "engine"
    /\ UNCHANGED <<dargs, derr, cohort, county_a_rows, county_b_rows,
                   common_keys, output>>
    /\ UNCHANGED <<herr, delta, contributions, step_idx, mx_step, idx,
                   perturbed, upper, gradient, builds>>
    /\ UNCHANGED ltVars

\* an error of the engine leaves decompose_between_counties
DEngineRaised ==
    /\ dpc = "engine"
    /\ hpc = "raised"
    /\ dpc' = "raised"
    /\ derr' = herr
    /\ UNCHANGED <<dargs, cohort, county_a_rows, county_b_rows, common_keys,
                   ax_values, engine_calls, output>>
    /\ UNCHANGED <<ltVars, hVars>>

\* decompose_between_counties, lines 180-192
DAnnotate ==
    /\ dpc = "engine"
    /\ hpc = "returned"
    /\ output' = AnnotatedRows(hargs.age_lower, hargs.age_upper, contributions)
    /\ dpc' = "returned"
    /\ UNCHANGED <<dargs, derr, cohort, county_a_rows, county_b_rows,
                   common_keys, ax_values, engine_calls>>
    /\ UNCHANGED <<ltVars, hVars>>

(* Calls of decompose_between_counties *)

MaxRecords == 4

KeyValues == << <<R(0), R(2)>>, <<R(2), None>>, <<R(2), R(4)>> >>
Counties == <<CountyA, CountyB>>

\* the rate a county reports for an age group
RateTable ==
    << << <<1, 2>>, <<1, 4>>, <<1, 8>> >>,
       << <<1, 4>>, <<1, 8>>, <<1, 2>> >> >>

\* rows differ in stratum and in carrying an ax value
Variants ==
    { [race |-> Race, sex |-> Sex, has_ax |-> FALSE],
      [race |-> Race, sex |-> Sex, has_ax |-> TRUE],
      [race |-> Race, sex |-> "Male", has_ax |-> TRUE] }

\* the ax value a county reports, when it reports one
AxTable == << One, <<3, 2>> >>

Row(c, k, v) ==
    [county |-> Counties[c], race |-> v.race, sex |-> v.sex,
     age_lower |-> KeyValues[k][1], age_upper |-> KeyValues[k][2],
     mx |-> RateTable[c][k],
     ax |-> IF v.has_ax THEN AxTable[c] ELSE None]

\* position of a row's county and age group in the caller's listing
ClassOf(row) ==
    LET c == CHOOSE x \in 1..2 : Counties[x] = row.county
        k == CHOOSE x \in 1..3 : KeyValues[x] = Key(row)
    IN  3 * (c - 1) + k

\* The caller's records, listed by county and age group; rows of one county
\* and age group come in either order.
DAddRecord ==
    /\ dpc = "idle"
    /\ Len(dargs.records) < MaxRecords
    /\ \E c \in 1..2, k \in 1..3, v \in Variants :
         /\ dargs.records # <<>> =>
              ClassOf(dargs.records[Len(dargs.records)]) <= 3 * (c - 1) + k
         /\ dargs' = [dargs EXCEPT !.records = Append(@, Row(c, k, v))]
    /\ UNCHANGED <<dpc, derr, cohort, county_a_rows, county_b_rows,
                   common_keys, ax_values, engine_calls, output>>
    /\ UNCHANGED <<ltVars, hVars>>

DCall ==
    /\ dpc = "idle"
    /\ \E g \in BOOLEAN :
         dargs' = [dargs EXCEPT !.ax_col = g, !.steps = 1]
    /\ dpc' = "call"
    /\ UNCHANGED <<derr, cohort, county_a_rows, county_b_rows, common_keys,
                   ax_values, engine_calls, output>>
    /\ UNCHANGED <<ltVars, hVars>>

NextD ==
    \/ DAddRecord \/ DCall
    \/ DFilterCohort \/ DSplitCounties \/ DAlignKeys \/ DInvokeEngine
    \/ DEngineRaised \/ DAnnotate
    \/ HStart \/ HBeginStep \/ HEvalUpper \/ HEvalLower \/ HAccumulate
    \/ HReturn

SpecD == Init /\ [][NextD]_vars

----------------------------------------------------------------------------
(* Properties of build_life_table *)

Returned == pc = "returned"
Groups == Len(data.age_lower)
IsOpen(i) == IsNone(data.age_upper[i])

LxStartsAtRadix == table.lx[1] = data.radix
LxNonIncreasing ==
    \A i \in 1..(Groups - 1) : RLe(table.lx[i + 1], table.lx[i])

\* C2 as stated: every returned life table has lx[0] = radix and
\* lx[i+1] <= lx[i] for every i.
C2_LxMonotoneAnyRadix ==
    Returned => LxStartsAtRadix /\ LxNonIncreasing

\* C2 amended: a returned life table built from a radix >= 0 has
\* lx[0] = radix and lx[i+1] <= lx[i] for every i; lx[0] = radix holds
\* for every radix.
C2_LxMonotone ==
    Returned =>
        /\ LxStartsAtRadix
        /\ RLe(Zero, data.radix) => LxNonIncreasing

C2_Witness ==
    /\ Returned
    /\ Groups = 3
    /\ RLt(Zero, data.radix)
    /\ RLt(table.lx[2], table.lx[1])
    /\ RLt(table.lx[3], table.lx[2])
    /\ RLt(Zero, table.lx[3])

QxInUnitInterval ==
    \A i \in 1..Groups : RLe(Zero, table.qx[i]) /\ RLe(table.qx[i], One)

\* C3 as stated: in every returned life table every qx[i] is in [0, 1] and
\* the qx of the final age group is 1.
C3_QxFinalAlwaysOne ==
    Returned => QxInUnitInterval /\ table.qx[Groups] = One

\* C3 amended: in every returned life table every qx[i] is in [0, 1], and
\* the qx of the final age group is 1 when that group is open-ended (its
\* age_upper is undefined).
C3_QxRange ==
    Returned =>
        /\ QxInUnitInterval
        /\ IsOpen(Groups) => table.qx[Groups] = One

C3_Witness ==
    /\ Returned
    /\ Groups = 3
    /\ IsOpen(Groups)
    /\ table.qx[Groups] = One
    /\ data.ax_given
    /\ table.qx[1] = Zero
    /\ RLt(Zero, data.mx[1])
    /\ \A i \in 1..2 : RLt(data.age_lower[i], data.age_lower[i + 1])

\* C4: in every returned life table dx[i] = lx[i] * qx[i] for every age
\* group, and lx[i+1] = lx[i] * (1 - qx[i]) for every i below the last.
C4_DxLxRelations ==
    Returned =>
        /\ \A i \in 1..Groups :
             table.dx[i] = RMul(table.lx[i], table.qx[i])
        /\ \A i \in 1..(Groups - 1) :
             table.lx[i + 1] = RMul(table.lx[i], RSub(One, table.qx[i]))

C4_Witness ==
    /\ Returned
    /\ Groups = 3
    /\ ~IsOpen(Groups)
    /\ ~IsZero(table.dx[2])
    /\ table.dx[3] # table.lx[3]
    /\ table.lx[3] # table.lx[2]

\* The inputs C5 lists as rejected.
LengthsDiffer(d) ==
    Len(d.age_lower) # Len(d.age_upper) \/ Len(d.age_upper) # Len(d.mx)
    \/ Len(d.age_lower) # Len(d.mx)
TooFewGroups(d) == Len(d.age_lower) < 2
OpenBeforeLast(d) ==
    \E i \in 1..(Len(d.age_upper) - 1) : IsNone(d.age_upper[i])
UpperNotAboveLower(d) ==
    \E i \in (1..Len(d.age_upper)) \cap (1..Len(d.age_lower)) :
        ~IsNone(d.age_upper[i]) /\ ~RLt(d.age_lower[i], d.age_upper[i])
AxLengthDiffers(d) == d.ax_given /\ Len(d.ax) # Len(d.age_lower)
SomeRateNegative(d) == \E i \in 1..Len(d.mx) : d.mx[i][1] < 0
Rejectable(d) ==
    \/ LengthsDiffer(d) \/ TooFewGroups(d) \/ OpenBeforeLast(d)
    \/ UpperNotAboveLower(d) \/ AxLengthDiffers(d) \/ SomeRateNegative(d)

\* C5: a call whose input has columns of different lengths, fewer than two
\* age groups, an undefined non-final age_upper, a defined age_upper not
\* above its age_lower, an ax of another length or a negative rate never
\* returns a table: it stops only by raising an error, and no column is
\* computed at any point of the call.
C5_RejectsBeforeComputing ==
    (pc # "idle" /\ Rejectable(data)) =>
        /\ pc \in {"call", "validated", "raised"}
        /\ table = NoTable
        /\ pc = "raised" => err # ""
        /\ pc # "raised" => ENABLED (Validate \/ CheckRates)

C5_Witness ==
    /\ pc = "raised"
    /\ err = "Mortality rates must be non-negative"
    /\ ~LengthsDiffer(data) /\ ~TooFewGroups(data) /\ ~OpenBeforeLast(data)
    /\ ~UpperNotAboveLower(data) /\ ~AxLengthDiffers(data)
    /\ ~RLt(data.mx[1], Zero)
    /\ table = NoTable

\* C6: every returned life table has age_lower[i] < age_lower[i+1] for all
\* i, inputs with another order of age_lower being rejected.
C6_AgeLowerIncreasing ==
    Returned =>
        \A i \in 1..(Groups - 1) :
            RLt(data.age_lower[i], data.age_lower[i + 1])

----------------------------------------------------------------------------
(* Properties of horiuchi_decomposition *)

\* An age partition as the data model defines it: at least two groups,
\* age_lower strictly increasing, every defined age_upper above its
\* age_lower, only the last group possibly open.
ValidPartition(age_lower, age_upper) ==
    /\ Len(age_lower) = Len(age_upper)
    /\ Len(age_lower) >= 2
    /\ \A i \in 1..(Len(age_lower) - 1) :
         /\ RLt(age_lower[i], age_lower[i + 1])
         /\ ~IsNone(age_upper[i])
    /\ \A i \in 1..Len(age_lower) :
         ~IsNone(age_upper[i]) => RLt(age_lower[i], age_upper[i])

NonNegative(mx) == \A i \in 1..Len(mx) : mx[i][1] >= 0

DecompositionPrecondition(a) ==
    /\ Len(a.baseline_mx) = Len(a.comparison_mx)
    /\ NonNegative(a.baseline_mx) /\ NonNegative(a.comparison_mx)
    /\ ValidPartition(a.age_lower, a.age_upper)
    /\ Len(a.age_lower) = Len(a.baseline_mx)
    /\ a.ax_given => Len(a.ax) = Len(a.age_lower)
    /\ a.steps >= 1

\* C10: a call with equal-length non-negative rate vectors (zero rates and
\* rates below 1e-5 included) over a valid partition and steps >= 1 raises no
\* error and returns one contribution per age group.
C10_NonNegativeRatesAccepted ==
    (hpc # "idle" /\ DecompositionPrecondition(hargs)) =>
        /\ hpc # "raised"
        /\ hpc = "returned" => Len(contributions) = Len(hargs.age_lower)

----------------------------------------------------------------------------
(* Properties of decompose_between_counties *)

InCohort(row) == row.race = Race /\ row.sex = Sex
Matching(county) ==
    { n \in 1..Len(dargs.records) :
        InCohort(dargs.records[n]) /\ dargs.records[n].county = county }
KeysIn(county) == { Key(dargs.records[n]) : n \in Matching(county) }
CommonKeySet == KeysIn(CountyA) \cap KeysIn(CountyB)

NoMatch == \A n \in 1..Len(dargs.records) : ~InCohort(dargs.records[n])
CountyMissing == ~NoMatch /\ (Matching(CountyA) = {} \/ Matching(CountyB) = {})
NoOverlap ==
    Matching(CountyA) # {} /\ Matching(CountyB) # {} /\ CommonKeySet = {}

FailsWith(msg) ==
    /\ dpc \in {"call", "cohort", "split", "raised"}
    /\ dpc = "raised" => derr = msg
    /\ dpc # "raised" => ENABLED (DFilterCohort \/ DSplitCounties \/ DAlignKeys)
    /\ output = <<>>
    /\ engine_calls = 0 /\ hpc = "idle" /\ builds = <<>>

\* C7: a call fails with the empty-cohort error when no record matches the
\* race and sex, fails when a county has no record in the cohort, and fails
\* with the no-overlap error when the counties' key sets are disjoint; in
\* each case it returns no rows and never invokes the engine.
C7_AlignmentFailures ==
    dpc # "idle" =>
        /\ NoMatch =>
             FailsWith("No rows found for the specified race/sex cohort")
        /\ CountyMissing =>
             FailsWith("Both counties must have data for the specified cohort")
        /\ NoOverlap =>
             FailsWith("No overlapping age groups available for decomposition")

C7_Witness ==
    /\ dpc = "raised"
    /\ derr = "No overlapping age groups available for decomposition"
    /\ NoOverlap
    /\ \E n \in 1..Len(dargs.records) : ~InCohort(dargs.records[n])
    /\ engine_calls = 0

\* C8: a successful call returns exactly one row per age-group key common
\* to both counties, in ascending age order; every row carries the passed
\* county_a, county_b, race and sex and the same
\* life_expectancy_difference, which is the sum of the rows' contributions.
C8_RowsOfSuccess ==
    dpc = "returned" =>
        /\ Len(output) = Cardinality(CommonKeySet)
        /\ { Key(output[i]) : i \in 1..Len(output) } = CommonKeySet
        /\ \A i \in 1..(Len(output) - 1) :
             KeyLess(Key(output[i]), Key(output[i + 1]))
        /\ \A i \in 1..Len(output) :
             /\ output[i].county_a = CountyA /\ output[i].county_b = CountyB
             /\ output[i].race = Race /\ output[i].sex = Sex
             /\ output[i].life_expectancy_difference =
                  SumOf([j \in 1..Len(output) |-> output[j].contribution])

C8_Witness ==
    /\ dpc = "returned"
    /\ Len(output) = 2
    /\ Len(dargs.records) = MaxRecords
    /\ output[1].contribution # output[2].contribution
    /\ output[1].contribution # <<>>

\* the ax value of a county's row for a key
AxOf(rows, key) == IndexRow(rows, key).ax
ExpectedAx(key) ==
    IF ~IsNone(AxOf(county_a_rows, key)) THEN AxOf(county_a_rows, key)
    ELSE AxOf(county_b_rows, key)

\* C9: with an ax column given, the ax vector passed to the engine is absent
\* or has one value per common key, county A's when present and county B's
\* otherwise; it is absent when some common key has no value in either
\* county.
C9_AxAllOrNothing ==
    (engine_calls > 0 /\ dargs.ax_col) =>
        /\ hargs.ax_given =>
             /\ Len(hargs.ax) = Len(common_keys)
             /\ \A n \in 1..Len(common_keys) :
                  /\ ~IsNone(hargs.ax[n])
                  /\ hargs.ax[n] = ExpectedAx(common_keys[n])
        /\ (\E n \in 1..Len(common_keys) : IsNone(ExpectedAx(common_keys[n])))
             => ~hargs.ax_given /\ hargs.ax = <<>>

C9_Witness ==
    /\ engine_calls > 0 /\ dargs.ax_col
    /\ hargs.ax_given
    /\ Len(hargs.ax) = 2
    /\ hargs.ax[1] = AxTable[2]
    /\ hargs.ax[2] = AxTable[1]

\* C11: whenever the cohort is non-empty, both counties have rows in it and
\* the counties share at least one (age_lower, age_upper) key, a call
\* raises no error and returns rows; one shared key is enough.
C11_SharedKeyCompletes ==
    (/\ dpc # "idle"
     /\ Matching(CountyA) # {} /\ Matching(CountyB) # {}
     /\ CommonKeySet # {}) =>
        /\ dpc # "raised"
        /\ dpc = "returned" => output # <<>>

----------------------------------------------------------------------------
(* Life-table builds of horiuchi_decomposition *)

\* the midpoint vector baseline + ((j + 0.5) / steps) * delta
Midpoint(a, j) ==
    [c \in 1..Len(a.baseline_mx) |->
        RAdd(a.baseline_mx[c],
             RMul(Norm(2 * j + 1, 2 * a.steps),
                  RSub(a.comparison_mx[c], a.baseline_mx[c])))]

\* x is a build over the call's partition and ax with the rates mx
BuildOf(x, mx, a) ==
    /\ x.mx = mx
    /\ x.age_lower = a.age_lower /\ x.age_upper = a.age_upper
    /\ x.ax_given = a.ax_given /\ x.ax = a.ax

\* C12: a successful call over k age groups makes exactly steps * k * 2
\* life-table builds: for each j in 0..steps-1 and each age group i, one
\* at the midpoint vector baseline + ((j + 0.5) / steps) * delta with only
\* component i raised by h and one with only component i lowered by h, the
\* other components and the ax as passed (the builds come in the order of
\* j, then i, the raised one first).
C12_BuildsOfSuccess ==
    hpc = "returned" =>
        LET k == Len(hargs.baseline_mx)
            n == hargs.steps
        IN  /\ Len(builds) = n * k * 2
            /\ \A j \in 0..(n - 1), i \in 1..k :
                 LET mid == Midpoint(hargs, j)
                     at == 2 * (j * k + (i - 1))
                 IN  /\ BuildOf(builds[at + 1],
                                [mid EXCEPT ![i] = RAdd(mid[i], step)], hargs)
                     /\ BuildOf(builds[at + 2],
                                [mid EXCEPT ![i] = RSub(mid[i], step)], hargs)

C12_Witness ==
    /\ hpc = "returned"
    /\ hargs.steps = MaxSteps
    /\ Len(hargs.baseline_mx) = MaxRates
    /\ Len(builds) = MaxSteps * MaxRates * 2
    /\ hargs.ax_given
    /\ \A c \in 1..MaxRates : hargs.baseline_mx[c] # hargs.comparison_mx[c]
    /\ builds[1].mx # builds[Len(builds) - 1].mx

====
